---- MODULE Spec2Model ----
(***************************************************************************)
(* Superset asset import of tutor-contrib-aspects:                         *)
(*   src/tutoraspects/asset_import_helper.py                               *)
(* and the extraction of translatable text from the assets:                *)
(*   src/scripts/translate_utils.py                                        *)
(*                                                                         *)
(* Asset trees are the values yaml.safe_load produces.  A value is a       *)
(* tagged record:                                                          *)
(*   [t |-> "str",  v |-> <<characters>>]   a Python str                   *)
(*   [t |-> "map",  ks |-> <<keys>>, v |-> [key |-> value]]  a dict, with  *)
(*                                          its insertion order in ks      *)
(*   [t |-> "list", v |-> <<values>>]       a list                         *)
(*   [t |-> "num",  v |-> n]                an int                         *)
(*   [t |-> "none"]                         None                           *)
(* A str is a sequence of characters so that startswith, `in` and + are    *)
(* computed; dict keys stay TLA+ strings (the code only compares them).    *)
(* An operation that can raise returns [t |-> "raise", e |-> <exception>]  *)
(* in place of its result.                                                 *)
(***************************************************************************)
EXTENDS Integers, Sequences, FiniteSets, TLC

S(s) == [t |-> "str", v |-> s]
L(q) == [t |-> "list", v |-> q]
N(n) == [t |-> "num", v |-> n]
NoneV == [t |-> "none"]
Raise(e) == [t |-> "raise", e |-> e]

Range(q) == {q[i] : i \in 1..Len(q)}

\* A dict built from its keys (in insertion order) and their values.
Map(ks, vs) ==
  [t |-> "map", ks |-> ks,
   v |-> [k \in Range(ks) |-> vs[CHOOSE i \in 1..Len(ks) : ks[i] = k]]]

EmptyMap == Map(<<>>, <<>>)

IsRaise(r) == r.t = "raise"

\* key in d
HasKey(d, key) == key \in DOMAIN d.v

\* d.get(key)
Get(d, key) == IF HasKey(d, key) THEN d.v[key] ELSE NoneV

\* d[key] = val: an existing key keeps its position, a new key goes last.
SetKey(d, key, val) ==
  [t |-> "map",
   ks |-> IF HasKey(d, key) THEN d.ks ELSE Append(d.ks, key),
   v |-> [k \in DOMAIN d.v \cup {key} |-> IF k = key THEN val ELSE d.v[k]]]

\* d.pop(key, None)
PopKey(d, key) ==
  [t |-> "map",
   ks |-> SelectSeq(d.ks, LAMBDA k : k # key),
   v |-> [k \in DOMAIN d.v \ {key} |-> d.v[k]]]

\* Python truthiness: bool(x)
Truthy(x) ==
  CASE x.t = "str" -> x.v # <<>>
    [] x.t = "map" -> x.ks # <<>>
    [] x.t = "list" -> x.v # <<>>
    [] x.t = "num" -> x.v # 0
    [] OTHER -> FALSE

\* s.startswith(p)
StartsWith(s, p) == Len(s) >= Len(p) /\ SubSeq(s, 1, Len(p)) = p

\* p in s, for strings
Contains(s, p) ==
  \E i \in 1..(Len(s) - Len(p) + 1) : SubSeq(s, i, i + Len(p) - 1) = p

ExprOpen == <<"{", "{">>
StmtOpen == <<"{", "%">>
RawOpen == <<"{", "%", " ", "r", "a", "w", " ", "%", "}">>
RawClose == <<"{", "%", " ", "e", "n", "d", "r", "a", "w", " ", "%", "}">>

\* "{{" in s or "{%" in s
HasMarker(s) == Contains(s, ExprOpen) \/ Contains(s, StmtOpen)

\* "{% raw %}" + s + "{% endraw %}"
RawWrap(s) == RawOpen \o s \o RawClose

(***************************************************************************)
(* The asset classes: ASSET_TYPE_MAP in its order, and the per-class path  *)
(* lists.  A path is kept split on ".", as var_path.split(".") gives it.   *)
(***************************************************************************)
ASSET_TYPE_MAP ==
  << [key |-> "slice_name", cls |-> "charts"],
     [key |-> "dashboard_title", cls |-> "dashboards"],
     [key |-> "table_name", cls |-> "datasets"],
     [key |-> "database_name", cls |-> "databases"] >>

Classes == {ASSET_TYPE_MAP[i].cls : i \in 1..Len(ASSET_TYPE_MAP)}

get_templated_vars(cls) ==
  CASE cls = "datasets" -> <<"schema", "table_name", "sql">>
    [] cls = "databases" -> <<"sqlalchemy_uri">>
    [] OTHER -> <<>>

get_required_vars(cls) ==
  CASE cls = "dashboards" -> <<"_roles">>
    [] OTHER -> <<>>

get_omitted_vars(cls) ==
  CASE cls = "charts" -> << <<"params", "dashboards">>,
                            <<"params", "datasource">>,
                            <<"params", "slice_id">> >>
    [] cls = "datasets" -> << <<"extra", "certification">> >>
    [] OTHER -> <<>>

get_raw_vars(cls) ==
  CASE cls = "charts" -> {"sqlExpression", "query_context", "translate_column"}
    [] OTHER -> {}

(***************************************************************************)
(* Asset.remove_content / Asset._remove_content                            *)
(***************************************************************************)
RECURSIVE _remove_content(_, _)
_remove_content(content, var_path) ==
  IF content.t = "none" THEN content
  ELSE IF Len(var_path) = 1
  THEN CASE content.t = "map" -> PopKey(content, var_path[1])
         [] content.t = "list" -> Raise("TypeError")
         [] OTHER -> Raise("AttributeError")
  ELSE CASE content.t = "map" ->
              IF HasKey(content, var_path[1])
              THEN LET sub == _remove_content(content.v[var_path[1]], Tail(var_path))
                   IN IF IsRaise(sub) THEN sub
                      ELSE [content EXCEPT !.v[var_path[1]] = sub]
              ELSE content
         [] content.t = "num" -> Raise("TypeError")
         \* `segment in content` on a list or str holding no such entry
         [] OTHER -> content

RECURSIVE remove_paths(_, _)
remove_paths(content, paths) ==
  IF paths = <<>> \/ IsRaise(content) THEN content
  ELSE remove_paths(_remove_content(content, Head(paths)), Tail(paths))

remove_content(cls, content) == remove_paths(content, get_omitted_vars(cls))

(***************************************************************************)
(* Asset.omit_templated_vars.  The code changes content in place and       *)
(* returns nothing; the operator returns content as the call leaves it, or *)
(* the exception that leaves the call.  Keys and list items are visited in *)
(* order, so the exception of the first one that raises is the one raised. *)
(***************************************************************************)
\* The first raise among rs[ks[1]], rs[ks[2]], ..., or else the value `done`.
FirstRaise(ks, rs, done) ==
  IF \E i \in 1..Len(ks) : IsRaise(rs[ks[i]])
  THEN rs[ks[CHOOSE i \in 1..Len(ks) :
                /\ IsRaise(rs[ks[i]])
                /\ \A j \in 1..(i - 1) : ~IsRaise(rs[ks[j]])]]
  ELSE done

\* omit_replace with the templated-string test inverted
omit_replace_inverted(cv, ev, key, raw) ==
  IF ev.t = "str" /\ ~HasMarker(ev.v)
  THEN IF key \in raw
       THEN IF cv.t = "str" THEN S(RawWrap(cv.v)) ELSE Raise("TypeError")
       ELSE ev
  ELSE cv

\* omit_replace without the raw-field branch
omit_replace_copies(cv, ev, key, raw) ==
  IF ev.t = "str" /\ HasMarker(ev.v) THEN ev ELSE cv

\* lines 135-141: what content[key] is after the templated-string test
omit_replace(cv, ev, key, raw) ==
  IF ev.t = "str" /\ HasMarker(ev.v)
  THEN IF key \in raw
       THEN IF cv.t = "str" THEN S(RawWrap(cv.v)) ELSE Raise("TypeError")
       ELSE ev
  ELSE cv

RECURSIVE omit_templated_vars(_, _, _)
RECURSIVE omit_item(_, _, _, _)

\* lines 148-153, for the item at Python index i - 1 of content[key]
omit_item(item, i, ev, raw) ==
  IF item.t # "map" THEN item
  ELSE CASE ev.t = "list" ->
              IF i <= Len(ev.v)
              THEN omit_templated_vars(
                     item, IF Truthy(ev.v[i]) THEN ev.v[i] ELSE NoneV, raw)
              ELSE item
         \* a str gives one character or IndexError: item is left either way
         [] ev.t = "str" -> item
         [] ev.t = "map" -> Raise("KeyError")
         [] OTHER -> Raise("TypeError")

\* lines 135-153 for one key present in both mappings
omit_key(cv, ev, key, raw) ==
  LET v1 == omit_replace(cv, ev, key, raw)
  IN IF IsRaise(v1) THEN v1
     ELSE IF v1.t = "map" THEN omit_templated_vars(v1, ev, raw)
     ELSE IF v1.t = "list"
     THEN LET idx == [i \in 1..Len(v1.v) |-> i]
              rs == [i \in 1..Len(v1.v) |-> omit_item(v1.v[i], i, ev, raw)]
          IN FirstRaise(idx, rs, L(rs))
     ELSE v1

omit_templated_vars(content, existing, raw) ==
  IF content.t # "map" \/ existing.t # "map" THEN content
  ELSE LET rs == [key \in DOMAIN content.v |->
                    IF HasKey(existing, key)
                    THEN omit_key(content.v[key], existing.v[key], key, raw)
                    ELSE content.v[key]]
       IN FirstRaise(content.ks, rs, [content EXCEPT !.v = rs])

(***************************************************************************)
(* json.loads (ChartAsset.process, line 179), for the JSON texts of the    *)
(* model: objects, arrays, strings and null.  A text is a sequence of      *)
(* tokens: the punctuation, null, and inside quotes either the characters  *)
(* of a string value or the one token that is an object key.               *)
(***************************************************************************)
JsonFail == [ok |-> FALSE]
JsonOk(val, rest) == [ok |-> TRUE, val |-> val, rest |-> rest]
Drop(s, n) == SubSeq(s, n + 1, Len(s))

\* the quoted string at the head of s: its characters and what follows it
json_string(s) ==
  IF s # <<>> /\ Head(s) = "\"" /\ \E j \in 2..Len(s) : s[j] = "\""
  THEN LET j == CHOOSE j \in 2..Len(s) :
                  s[j] = "\"" /\ \A k \in 2..(j - 1) : s[k] # "\""
       IN JsonOk(SubSeq(s, 2, j - 1), Drop(s, j))
  ELSE JsonFail

RECURSIVE json_value(_)
RECURSIVE json_members(_, _)
RECURSIVE json_elements(_, _)

\* after "{" or ",": "key": value, then "," or "}"
json_members(s, acc) ==
  LET k == json_string(s)
  IN IF ~k.ok \/ Len(k.val) # 1 \/ k.rest = <<>> \/ Head(k.rest) # ":"
     THEN JsonFail
     ELSE LET r == json_value(Tail(k.rest))
          IN IF ~r.ok \/ r.rest = <<>> THEN JsonFail
             ELSE LET acc2 == SetKey(acc, k.val[1], r.val)
                  IN CASE Head(r.rest) = "}" -> JsonOk(acc2, Tail(r.rest))
                       [] Head(r.rest) = "," -> json_members(Tail(r.rest), acc2)
                       [] OTHER -> JsonFail

\* after "[" or ",": value, then "," or "]"
json_elements(s, acc) ==
  LET r == json_value(s)
  IN IF ~r.ok \/ r.rest = <<>> THEN JsonFail
     ELSE CASE Head(r.rest) = "]" -> JsonOk(L(Append(acc, r.val)), Tail(r.rest))
            [] Head(r.rest) = "," -> json_elements(Tail(r.rest), Append(acc, r.val))
            [] OTHER -> JsonFail

json_value(s) ==
  IF s = <<>> THEN JsonFail
  ELSE CASE Head(s) = "null" -> JsonOk(NoneV, Tail(s))
         [] Head(s) = "\"" ->
              LET r == json_string(s)
              IN IF r.ok THEN JsonOk(S(r.val), r.rest) ELSE JsonFail
         [] Head(s) = "{" ->
              IF Len(s) >= 2 /\ s[2] = "}" THEN JsonOk(EmptyMap, Drop(s, 2))
              ELSE json_members(Tail(s), EmptyMap)
         [] Head(s) = "[" ->
              IF Len(s) >= 2 /\ s[2] = "]" THEN JsonOk(L(<<>>), Drop(s, 2))
              ELSE json_elements(Tail(s), <<>>)
         [] OTHER -> JsonFail

json_loads(s) ==
  LET r == json_value(s)
  IN IF r.ok /\ r.rest = <<>> THEN r.val ELSE Raise("JSONDecodeError")

(***************************************************************************)
(* ChartAsset.process.  content["query_context"] may become the very       *)
(* object existing["query_context"] (line 176); `alias` says so, and then  *)
(* what omit_templated_vars writes into it is written into existing's too. *)
(* The result is [content, existing] as the call leaves them, or a raise.  *)
(***************************************************************************)
IsObject(x) == x.t \in {"map", "list"}

ChartProcess(content, existing) ==
  LET backfill == ~Truthy(Get(content, "query_context")) /\ Truthy(existing)
      c1 == IF backfill
            THEN SetKey(content, "query_context", Get(existing, "query_context"))
            ELSE content
  IN IF ~HasKey(c1, "query_context") THEN Raise("KeyError")
     ELSE LET qc == c1.v["query_context"]
              q2 == IF qc.t = "str" THEN json_loads(qc.v) ELSE qc
          IN IF IsRaise(q2) THEN q2
             ELSE IF ~Truthy(existing)
             THEN [t |-> "ok", content |-> SetKey(c1, "query_context", q2),
                   existing |-> existing]
             ELSE LET q3 == omit_templated_vars(
                              q2, Get(existing, "query_context"),
                              get_raw_vars("charts"))
                      alias == backfill /\ IsObject(qc)
                  IN IF IsRaise(q3) THEN q3
                     ELSE [t |-> "ok",
                           content |-> SetKey(c1, "query_context", q3),
                           existing |-> IF alias
                                        THEN SetKey(existing, "query_context", q3)
                                        ELSE existing]

(***************************************************************************)
(* DatasetAsset.process                                                    *)
(***************************************************************************)
Upper(c) == CASE c = "a" -> "A" [] c = "b" -> "B" [] OTHER -> c
Lower(c) == CASE c = "A" -> "a" [] c = "B" -> "b" [] OTHER -> c
IsLetter(c) == c \in {"a", "b", "A", "B"}

\* s.replace("_", " ")
Replace(s) == [i \in 1..Len(s) |-> IF s[i] = "_" THEN " " ELSE s[i]]

\* s.title(): a letter that starts a word is upper-cased, the others lowered
Title(s) ==
  [i \in 1..Len(s) |->
     IF i > 1 /\ IsLetter(s[i - 1]) THEN Lower(s[i]) ELSE Upper(s[i])]

\* lines 209-211 (name_key "column_name") and 213-215 ("metric_name")
verbose_name(item, name_key) ==
  IF item.t # "map" THEN Raise("AttributeError")
  ELSE IF Truthy(Get(item, "verbose_name")) THEN item
  ELSE IF ~HasKey(item, name_key) THEN Raise("KeyError")
  ELSE IF item.v[name_key].t # "str" THEN Raise("AttributeError")
  ELSE SetKey(item, "verbose_name", S(Title(Replace(item.v[name_key].v))))

\* for item in content.get(list_key, []): ...
verbose_names(content, list_key, name_key) ==
  IF ~HasKey(content, list_key) THEN content
  ELSE LET items == content.v[list_key]
       IN CASE items.t = "list" ->
                 LET idx == [i \in 1..Len(items.v) |-> i]
                     rs == [i \in 1..Len(items.v) |->
                              verbose_name(items.v[i], name_key)]
                     r == FirstRaise(idx, rs, L(rs))
                 IN IF IsRaise(r) THEN r ELSE SetKey(content, list_key, r)
            \* iterating a dict or a str visits keys or characters: no .get
            [] items.t \in {"map", "str"} ->
                 IF Truthy(items) THEN Raise("AttributeError") ELSE content
            [] OTHER -> Raise("TypeError")

\* sqlfmt's format_string: surrounding white space goes, one newline ends
\* the text
IsSpace(c) == c \in {" ", "\n"}

format_string(s) ==
  LET first == CHOOSE i \in 1..(Len(s) + 1) :
                 /\ i = Len(s) + 1 \/ ~IsSpace(s[i])
                 /\ \A j \in 1..(i - 1) : IsSpace(s[j])
      last == CHOOSE i \in 0..Len(s) :
                /\ i = 0 \/ ~IsSpace(s[i])
                /\ \A j \in (i + 1)..Len(s) : IsSpace(s[j])
  IN SubSeq(s, first, last) \o <<"\n">>

DatasetProcess(content) ==
  LET c1 == verbose_names(content, "columns", "column_name")
      c2 == IF IsRaise(c1) THEN c1
            ELSE verbose_names(c1, "metrics", "metric_name")
  IN IF IsRaise(c2) THEN c2
     ELSE IF ~HasKey(c2, "sql") THEN Raise("KeyError")
     ELSE IF c2.v["sql"].t # "str" THEN Raise("TypeError")
     ELSE SetKey(c2, "sql", S(format_string(c2.v["sql"].v)))

(***************************************************************************)
(* Output file name, _validate_asset_file lines 248-258.  A file name is a *)
(* sequence of characters that ends with the one token ".yaml".            *)
(***************************************************************************)
IsDigit(c) == c \in {"0", "1", "2", "3", "4", "5", "6", "7", "8", "9"}

\* the length of the match of (_\d*)\.yaml at the head of s, or 0
MatchLen(s) ==
  IF s # <<>> /\ Head(s) = "_"
       /\ \E j \in 2..Len(s) :
            s[j] = ".yaml" /\ \A k \in 2..(j - 1) : IsDigit(s[k])
  THEN CHOOSE j \in 2..Len(s) :
         s[j] = ".yaml" /\ \A k \in 2..(j - 1) : IsDigit(s[k])
  ELSE 0

\* re.sub(r"(_\d*)\.yaml", repl, s)
RECURSIVE re_sub(_, _)
re_sub(repl, s) ==
  IF s = <<>> THEN <<>>
  ELSE IF MatchLen(s) > 0 THEN repl \o re_sub(repl, Drop(s, MatchLen(s)))
  ELSE <<Head(s)>> \o re_sub(repl, Tail(s))

\* s[:6]
Prefix6(s) == SubSeq(s, 1, IF Len(s) < 6 THEN Len(s) ELSE 6)

\* lines 252-257: out_filename_uuid, or the exception raised computing it
out_filename_uuid(orig_filename, content) ==
  IF content.t # "map" THEN Raise("AttributeError")
  ELSE IF ~Truthy(Get(content, "dashboard_title"))
  THEN IF ~HasKey(content, "uuid") THEN Raise("KeyError")
       ELSE IF content.v["uuid"].t # "str" THEN Raise("TypeError")
       ELSE S(re_sub(<<"_">> \o Prefix6(content.v["uuid"].v) \o <<".yaml">>,
                     orig_filename))
  ELSE S(re_sub(<<".yaml">>, orig_filename))

\* "metadata.yaml" in asset_path
IsMetadata(asset_path) == Contains(asset_path, <<"metadata", ".yaml">>)

\* lines 262-264: the class of the first ASSET_TYPE_MAP key in content
Classify(content) ==
  IF \E i \in 1..Len(ASSET_TYPE_MAP) : HasKey(content, ASSET_TYPE_MAP[i].key)
  THEN ASSET_TYPE_MAP[CHOOSE i \in 1..Len(ASSET_TYPE_MAP) :
         /\ HasKey(content, ASSET_TYPE_MAP[i].key)
         /\ \A j \in 1..(i - 1) : ~HasKey(content, ASSET_TYPE_MAP[j].key)].cls
  ELSE "None"

(***************************************************************************)
(* One pass of the two validation loops of _validate_asset_file.           *)
(***************************************************************************)
Checked(content, needs_review) ==
  [t |-> "ok", content |-> content, needs_review |-> needs_review]

\* templated_check clearing the flag whenever a value passes
templated_check_clearing(content, existing, var, needs_review) ==
  IF ~HasKey(content, var) THEN Raise("KeyError")
  ELSE LET cv == content.v[var]
       IN IF ~Truthy(cv) THEN Checked(content, FALSE)
          ELSE IF cv.t # "str" THEN Raise("AttributeError")
          ELSE IF StartsWith(cv.v, ExprOpen) \/ StartsWith(cv.v, StmtOpen)
          THEN Checked(content, FALSE)
          ELSE IF Truthy(existing)
          THEN IF ~HasKey(existing, var) THEN Raise("KeyError")
               ELSE Checked(SetKey(content, var, existing.v[var]), FALSE)
          ELSE Checked(content, TRUE)

\* lines 277-294 for one var of get_templated_vars()
templated_check(content, existing, var, needs_review) ==
  IF ~HasKey(content, var) THEN Raise("KeyError")
  ELSE LET cv == content.v[var]
       IN IF ~Truthy(cv) THEN Checked(content, needs_review)
          ELSE IF cv.t # "str" THEN Raise("AttributeError")
          ELSE IF StartsWith(cv.v, ExprOpen) \/ StartsWith(cv.v, StmtOpen)
          THEN Checked(content, needs_review)
          ELSE IF Truthy(existing)
          THEN IF ~HasKey(existing, var) THEN Raise("KeyError")
               ELSE Checked(SetKey(content, var, existing.v[var]), FALSE)
          ELSE Checked(content, TRUE)

\* lines 298-310 for one var of get_required_vars()
required_check(content, existing, var, needs_review) ==
  IF HasKey(content, var) THEN Checked(content, needs_review)
  ELSE IF Truthy(existing)
  THEN IF ~HasKey(existing, var) THEN Raise("KeyError")
       ELSE Checked(SetKey(content, var, existing.v[var]), FALSE)
  ELSE Checked(content, TRUE)

\* cls.process(content, existing): [content, existing] as left, or a raise
Process(cls, content, existing) ==
  CASE cls = "charts" -> ChartProcess(content, existing)
    [] cls = "datasets" ->
         LET c == DatasetProcess(content)
         IN IF IsRaise(c) THEN c
            ELSE [t |-> "ok", content |-> c, existing |-> existing]
    [] OTHER -> [t |-> "ok", content |-> content, existing |-> existing]

(***************************************************************************)
(* The archives and the assets directories the import is run on.           *)
(***************************************************************************)
MaxEntries == 2

Lit == <<"a">>
Tmpl == <<"{", "{", "a", "}", "}">>
StmtTmpl == <<"{", "%", "a", "%", "}">>
Uuid1 == <<"u", "1", "2", "3", "4", "5", "6">>

\* the JSON text {"sqlExpression":"a"}
QcJson == <<"{", "\"", "sqlExpression", "\"", ":", "\"", "a", "\"", "}">>

Params == Map(<<"dashboards", "viz">>, <<L(<<N(1)>>), S(Lit)>>)

Chart(qc) ==
  [path |-> <<"c", "_", "1", ".yaml">>,
   tree |-> Map(<<"slice_name", "uuid", "params", "query_context">>,
                <<S(Lit), S(Uuid1), Params, qc>>)]

Dashboard(ks, vs) ==
  [path |-> <<"d", "_", "1", ".yaml">>,
   tree |-> Map(<<"dashboard_title", "uuid">> \o ks, <<S(Lit), S(Uuid1)>> \o vs)]

Dataset(schema, table, sql) ==
  [path |-> <<"t", ".yaml">>,
   tree |-> Map(<<"table_name", "schema", "sql", "uuid", "extra", "columns">>,
                <<table, schema, sql, S(Uuid1),
                  Map(<<"certification">>, <<S(Lit)>>),
                  L(<<Map(<<"column_name">>, <<S(<<"a", "_", "b">>)>>)>>)>>)]

Database(uri) ==
  [path |-> <<"b", ".yaml">>,
   tree |-> Map(<<"database_name", "sqlalchemy_uri", "uuid">>,
                <<S(Lit), uri, S(Uuid1)>>)]

Entries ==
  { Chart(S(QcJson)), Chart(NoneV),
    Dashboard(<<>>, <<>>), Dashboard(<<"_roles">>, <<L(<<S(Lit)>>)>>),
    Dataset(S(Lit), S(Lit), S(Tmpl)), Dataset(S(Tmpl), S(StmtTmpl), S(Tmpl)),
    Dataset(NoneV, S(Lit), NoneV),
    Database(S(Lit)),
    [path |-> <<"x", "_", "1", ".yaml">>,
     tree |-> Map(<<"uuid", "viz">>, <<S(Uuid1), S(Lit)>>)],
    [path |-> <<"y", "_", "1", ".yaml">>, tree |-> Map(<<"viz">>, <<S(Lit)>>)],
    [path |-> <<"metadata", ".yaml">>, tree |-> Map(<<"version">>, <<S(Lit)>>)] }

Archives ==
  UNION {[1..n -> Entries] : n \in 0..MaxEntries}

\* the output file name of an entry, for building the assets directories
NameOf(e) == out_filename_uuid(e.path, e.tree).v

\* An assets directory: output path |-> the tree in the file there.
Files(paths, trees) ==
  [q \in Range(paths) |-> trees[CHOOSE i \in 1..Len(paths) : paths[i] = q]]

ChartFile == <<"charts", NameOf(Chart(NoneV))>>
DashboardFile == <<"dashboards", NameOf(Dashboard(<<>>, <<>>))>>
DatasetFile == <<"datasets", NameOf(Dataset(NoneV, NoneV, NoneV))>>
DatabaseFile == <<"databases", NameOf(Database(NoneV))>>

\* files kept with their template expressions
TemplatedFiles ==
  Files(<<ChartFile, DashboardFile, DatasetFile, DatabaseFile>>,
        << Map(<<"slice_name", "params", "query_context">>,
               <<S(Lit), Map(<<"viz">>, <<S(Tmpl)>>),
                 Map(<<"sqlExpression">>, <<S(Tmpl)>>)>>),
           Map(<<"dashboard_title", "_roles">>, <<S(Lit), L(<<S(Tmpl)>>)>>),
           Map(<<"table_name", "schema", "sql">>,
               <<S(Tmpl), S(Tmpl), S(Tmpl)>>),
           Map(<<"database_name", "sqlalchemy_uri">>, <<S(Lit), S(Tmpl)>>) >>)

\* files that lack values an export holds
PartialFiles ==
  Files(<<ChartFile, DashboardFile, DatasetFile, DatabaseFile>>,
        << Map(<<"slice_name", "params", "query_context">>,
               <<S(Lit), Map(<<"viz">>, <<S(Lit)>>), S(Tmpl)>>),
           Map(<<"dashboard_title">>, <<S(Lit)>>),
           Map(<<"table_name", "sql">>, <<S(Lit), S(Tmpl)>>),
           Map(<<"database_name", "sqlalchemy_uri">>, <<S(Lit), NoneV>>) >>)

Disks == {<<>>, TemplatedFiles, PartialFiles}

(***************************************************************************)
(* scripts/translate_utils.py: the text extracted from the assets for      *)
(* translation.  A list of extracted values is a TLA+ sequence of values;  *)
(* translate_var returns L(that sequence) or the exception it raises.      *)
(***************************************************************************)
ASSET_FOLDER_MAPPING ==
  << [key |-> "dashboard_title", cls |-> "dashboards"],
     [key |-> "slice_name", cls |-> "charts"],
     [key |-> "table_name", cls |-> "datasets"] >>

\* translatable_attributes, each split on "." as line 22 does
translatable_attributes(cls) ==
  CASE cls = "dashboards" ->
         << <<"dashboard_title">>,
            <<"description">>,
            <<"metadata", "native_filter_configuration", "name">>,
            <<"metadata", "native_filter_configuration", "description">>,
            <<"position", "*", "meta", "text">>,
            <<"position", "*", "meta", "code">> >>
    [] cls = "charts" ->
         << <<"slice_name">>,
            <<"description">>,
            <<"params", "x_axis_label">>,
            <<"params", "y_axis_label">> >>
    [] cls = "datasets" ->
         << <<"metrics", "verbose_name">>,
            <<"columns", "verbose_name">> >>
    [] OTHER -> <<>>

\* x.get(key, ""): a dict answers, anything else has no get
get_or_empty(x, key) ==
  IF x.t = "map"
  THEN IF HasKey(x, key) THEN x.v[key] ELSE S(<<>>)
  ELSE Raise("AttributeError")

\* strings.extend(r) for each r of rs in turn, from acc; the first raise ends it
RECURSIVE extend_all(_, _)
extend_all(acc, rs) ==
  IF rs = <<>> THEN L(acc)
  ELSE IF IsRaise(Head(rs)) THEN Head(rs)
  ELSE extend_all(acc \o Head(rs).v, Tail(rs))

\* lines 26-55
RECURSIVE translate_var(_, _)

\* translate_var visiting the values of a mapping under "*" last to first
translate_var_reversed(content, var_path) ==
  IF ~Truthy(content) THEN L(<<>>)
  ELSE IF Len(var_path) = 1
  THEN IF content.t = "list"
       THEN LET got == [i \in 1..Len(content.v) |->
                          get_or_empty(content.v[i], var_path[1])]
            IN IF \E i \in 1..Len(got) : IsRaise(got[i])
               THEN Raise("AttributeError")
               ELSE L(got)
       ELSE LET got == get_or_empty(content, var_path[1])
            IN IF IsRaise(got) THEN got ELSE L(<<got>>)
  ELSE CASE content.t = "list" ->
              extend_all(<<>>, [i \in 1..Len(content.v) |->
                                  translate_var(content.v[i], Tail(var_path))])
         [] content.t = "map" ->
              IF var_path[1] = "*"
              THEN extend_all(<<>>, [i \in 1..Len(content.ks) |->
                                       translate_var(
                                         content.v[content.ks[Len(content.ks) + 1 - i]],
                                         Tail(var_path))])
              ELSE translate_var(Get(content, var_path[1]), Tail(var_path))
         [] OTHER -> L(<<>>)

\* translate_var giving one empty string for a node that is empty or absent
translate_var_empty_string(content, var_path) ==
  IF ~Truthy(content) THEN L(<<S(<<>>)>>)
  ELSE IF Len(var_path) = 1
  THEN IF content.t = "list"
       THEN LET got == [i \in 1..Len(content.v) |->
                          get_or_empty(content.v[i], var_path[1])]
            IN IF \E i \in 1..Len(got) : IsRaise(got[i])
               THEN Raise("AttributeError")
               ELSE L(got)
       ELSE LET got == get_or_empty(content, var_path[1])
            IN IF IsRaise(got) THEN got ELSE L(<<got>>)
  ELSE CASE content.t = "list" ->
              extend_all(<<>>, [i \in 1..Len(content.v) |->
                                  translate_var(content.v[i], Tail(var_path))])
         [] content.t = "map" ->
              IF var_path[1] = "*"
              THEN extend_all(<<>>, [i \in 1..Len(content.ks) |->
                                       translate_var(content.v[content.ks[i]],
                                                     Tail(var_path))])
              ELSE translate_var(Get(content, var_path[1]), Tail(var_path))
         [] OTHER -> L(<<>>)

translate_var(content, var_path) ==
  IF ~Truthy(content) THEN L(<<>>)
  ELSE IF Len(var_path) = 1
  THEN IF content.t = "list"
       THEN LET got == [i \in 1..Len(content.v) |->
                          get_or_empty(content.v[i], var_path[1])]
            IN IF \E i \in 1..Len(got) : IsRaise(got[i])
               THEN Raise("AttributeError")
               ELSE L(got)
       ELSE LET got == get_or_empty(content, var_path[1])
            IN IF IsRaise(got) THEN got ELSE L(<<got>>)
  ELSE CASE content.t = "list" ->
              extend_all(<<>>, [i \in 1..Len(content.v) |->
                                  translate_var(content.v[i], Tail(var_path))])
         [] content.t = "map" ->
              IF var_path[1] = "*"
              THEN extend_all(<<>>, [i \in 1..Len(content.ks) |->
                                       translate_var(content.v[content.ks[i]],
                                                     Tail(var_path))])
              ELSE translate_var(Get(content, var_path[1]), Tail(var_path))
         [] OTHER -> L(<<>>)

(***************************************************************************)
(* import_superset_assets as a state machine.  pc is the step about to     *)
(* run for the entry archive[idx]; err is the exception that ended the     *)
(* run, "None" while there is none.                                        *)
(***************************************************************************)
VARIABLES
  archive,         \* zip_file.namelist() with each entry's parsed content
  disk,            \* the assets directory: output path |-> tree
  idx,             \* position of the for loop of line 333
  pc,
  vi,              \* position of the for loops of lines 274 and 296
  content,         \* the tree being imported
  existing,        \* the tree loaded at line 272, NoneV when there is none
  out_path,        \* the class directory, "None" before classification
  out_filename,    \* out_filename_uuid
  needs_review,
  written_assets,
  review_files,
  dataset_warn,
  err

\* The state of scripts/translate_utils.py, which reads the assets directory
\* in a run of its own (extract_translations).
VARIABLES
  assets,          \* the files os.walk yields, in its order, with their yaml
  dataset_strings, \* localization/datasets_strings.yaml
  asset_strings,   \* the list of line 20, for the asset being read
  strings,         \* the list of line 102
  translations     \* the mapping of line 211, NoneV before it is built

translate_vars ==
  <<assets, dataset_strings, asset_strings, strings, translations>>

import_vars == <<archive, disk, content, existing, out_path, out_filename,
                 needs_review, written_assets, review_files, dataset_warn>>

vars == <<archive, disk, idx, pc, vi, content, existing, out_path,
          out_filename, needs_review, written_assets, review_files,
          dataset_warn, err, translate_vars>>

\* no extraction is running
TranslateIdle ==
  /\ assets = <<>>
  /\ dataset_strings = NoneV
  /\ asset_strings = <<>>
  /\ strings = <<>>
  /\ translations = NoneV

\* lines 327-330
Start(a, d) ==
  /\ archive = a
  /\ disk = d
  /\ idx = 1
  /\ pc = "loop"
  /\ vi = 1
  /\ content = NoneV
  /\ existing = NoneV
  /\ out_path = "None"
  /\ out_filename = <<>>
  /\ needs_review = FALSE
  /\ written_assets = <<>>
  /\ review_files = {}
  /\ dataset_warn = FALSE
  /\ err = "None"
  /\ TranslateIdle

Init == \E a \in Archives, d \in Disks : Start(a, d)

Running == err = "None"

\* an exception leaves the run where it is
Fail(e) ==
  /\ err' = e
  /\ UNCHANGED <<translate_vars, archive, disk, idx, pc, vi, content, existing, out_path,
                 out_filename, needs_review, written_assets, review_files,
                 dataset_warn>>

\* lines 334-335
SkipMetadata ==
  /\ Running /\ pc = "loop" /\ idx <= Len(archive)
  /\ IsMetadata(archive[idx].path)
  /\ idx' = idx + 1
  /\ UNCHANGED <<translate_vars, archive, disk, pc, vi, content, existing, out_path,
                 out_filename, needs_review, written_assets, review_files,
                 dataset_warn, err>>

\* lines 336-337
Parse ==
  /\ Running /\ pc = "loop" /\ idx <= Len(archive)
  /\ ~IsMetadata(archive[idx].path)
  /\ content' = archive[idx].tree
  /\ pc' = "name"
  /\ UNCHANGED <<translate_vars, archive, disk, idx, vi, existing, out_path, out_filename,
                 needs_review, written_assets, review_files, dataset_warn, err>>

\* lines 248-261
Name ==
  /\ Running /\ pc = "name"
  /\ LET f == out_filename_uuid(archive[idx].path, content)
     IN IF IsRaise(f) THEN Fail(f.e)
        ELSE /\ out_filename' = f.v
             /\ content' = SetKey(content, "_file_name", f)
             /\ out_path' = "None"
             /\ needs_review' = FALSE
             /\ pc' = "classify"
             /\ UNCHANGED <<translate_vars, archive, disk, idx, vi, existing, written_assets,
                            review_files, dataset_warn, err>>

\* lines 262-272: the class is found and the file already there is loaded
Classified ==
  /\ Running /\ pc = "classify"
  /\ Classify(content) # "None"
  /\ out_path' = Classify(content)
  /\ existing' = IF <<out_path', out_filename>> \in DOMAIN disk
                 THEN disk[<<out_path', out_filename>>] ELSE NoneV
  /\ pc' = "templated"
  /\ vi' = 1
  /\ UNCHANGED <<translate_vars, archive, disk, idx, content, out_filename, needs_review,
                 written_assets, review_files, dataset_warn, err>>

\* line 262 with no key of ASSET_TYPE_MAP in content, then line 318
Unclassified ==
  /\ Running /\ pc = "classify"
  /\ Classify(content) = "None"
  /\ pc' = "return"
  /\ UNCHANGED <<translate_vars, archive, disk, idx, vi, content, existing, out_path,
                 out_filename, needs_review, written_assets, review_files,
                 dataset_warn, err>>

\* lines 274-294, one var
CheckTemplated ==
  /\ Running /\ pc = "templated"
  /\ vi <= Len(get_templated_vars(out_path))
  /\ LET r == templated_check(content, existing,
                              get_templated_vars(out_path)[vi], needs_review)
     IN IF IsRaise(r) THEN Fail(r.e)
        ELSE /\ content' = r.content
             /\ needs_review' = r.needs_review
             /\ vi' = vi + 1
             /\ UNCHANGED <<translate_vars, archive, disk, idx, pc, existing, out_path,
                            out_filename, written_assets, review_files,
                            dataset_warn, err>>

\* line 274, the loop is over
EndTemplated ==
  /\ Running /\ pc = "templated"
  /\ vi > Len(get_templated_vars(out_path))
  /\ pc' = "required"
  /\ vi' = 1
  /\ UNCHANGED <<translate_vars, archive, disk, idx, content, existing, out_path,
                 out_filename, needs_review, written_assets, review_files,
                 dataset_warn, err>>

\* lines 296-310, one var
CheckRequired ==
  /\ Running /\ pc = "required"
  /\ vi <= Len(get_required_vars(out_path))
  /\ LET r == required_check(content, existing,
                             get_required_vars(out_path)[vi], needs_review)
     IN IF IsRaise(r) THEN Fail(r.e)
        ELSE /\ content' = r.content
             /\ needs_review' = r.needs_review
             /\ vi' = vi + 1
             /\ UNCHANGED <<translate_vars, archive, disk, idx, pc, existing, out_path,
                            out_filename, written_assets, review_files,
                            dataset_warn, err>>

\* line 296, the loop is over
EndRequired ==
  /\ Running /\ pc = "required"
  /\ vi > Len(get_required_vars(out_path))
  /\ pc' = "remove"
  /\ UNCHANGED <<translate_vars, archive, disk, idx, vi, content, existing, out_path,
                 out_filename, needs_review, written_assets, review_files,
                 dataset_warn, err>>

\* RemoveContent handing over to process, past line 313
RemoveContentSkipsOmit ==
  /\ Running /\ pc = "remove"
  /\ LET c == remove_content(out_path, content)
     IN IF IsRaise(c) THEN Fail(c.e)
        ELSE /\ content' = c
             /\ pc' = "process"
             /\ UNCHANGED <<translate_vars, archive, disk, idx, vi, existing, out_path,
                            out_filename, needs_review, written_assets,
                            review_files, dataset_warn, err>>

\* line 312
RemoveContent ==
  /\ Running /\ pc = "remove"
  /\ LET c == remove_content(out_path, content)
     IN IF IsRaise(c) THEN Fail(c.e)
        ELSE /\ content' = c
             /\ pc' = "omit"
             /\ UNCHANGED <<translate_vars, archive, disk, idx, vi, existing, out_path,
                            out_filename, needs_review, written_assets,
                            review_files, dataset_warn, err>>

\* line 313.  A value copied from existing at line 283 or 300 is the same
\* object in both trees; the classes with templated or required vars have no
\* raw vars, so what the call writes into such a value is what it holds.
OmitTemplated ==
  /\ Running /\ pc = "omit"
  /\ LET c == omit_templated_vars(content, existing, get_raw_vars(out_path))
     IN IF IsRaise(c) THEN Fail(c.e)
        ELSE /\ content' = c
             /\ pc' = "process"
             /\ UNCHANGED <<translate_vars, archive, disk, idx, vi, existing, out_path,
                            out_filename, needs_review, written_assets,
                            review_files, dataset_warn, err>>

\* lines 314-318
KindProcess ==
  /\ Running /\ pc = "process"
  /\ LET r == Process(out_path, content, existing)
     IN IF IsRaise(r) THEN Fail(r.e)
        ELSE /\ content' = r.content
             /\ existing' = r.existing
             /\ pc' = "return"
             /\ UNCHANGED <<translate_vars, archive, disk, idx, vi, out_path, out_filename,
                            needs_review, written_assets, review_files,
                            dataset_warn, err>>

\* lines 343-344
Skip ==
  /\ Running /\ pc = "return"
  /\ out_path = "None"
  /\ idx' = idx + 1
  /\ pc' = "loop"
  /\ UNCHANGED <<translate_vars, archive, disk, vi, content, existing, out_path,
                 out_filename, needs_review, written_assets, review_files,
                 dataset_warn, err>>

\* Write leaving a flagged entry unwritten
WriteUnlessFlagged ==
  /\ Running /\ pc = "return"
  /\ out_path # "None"
  /\ LET name == content.v["_file_name"].v
         path == <<out_path, name>>
     IN /\ dataset_warn' = (dataset_warn \/ out_path = "datasets")
        /\ review_files' = IF needs_review THEN review_files \cup {name}
                           ELSE review_files
        /\ written_assets' = IF needs_review THEN written_assets
                             ELSE Append(written_assets, path)
        /\ disk' = IF needs_review THEN disk
                   ELSE [q \in DOMAIN disk \cup {path} |->
                           IF q = path THEN content ELSE disk[q]]
  /\ idx' = idx + 1
  /\ pc' = "loop"
  /\ UNCHANGED <<translate_vars, archive, vi, content, existing, out_path, out_filename,
                 needs_review, err>>

\* lines 346-358.  The file holds the tree: what yaml.dump writes,
\* yaml.safe_load reads back at line 272 of a later entry.
Write ==
  /\ Running /\ pc = "return"
  /\ out_path # "None"
  /\ LET name == content.v["_file_name"].v
         path == <<out_path, name>>
     IN /\ dataset_warn' = (dataset_warn \/ out_path = "datasets")
        /\ review_files' = IF needs_review THEN review_files \cup {name}
                           ELSE review_files
        /\ written_assets' = Append(written_assets, path)
        /\ disk' = [q \in DOMAIN disk \cup {path} |->
                      IF q = path THEN content ELSE disk[q]]
  /\ idx' = idx + 1
  /\ pc' = "loop"
  /\ UNCHANGED <<translate_vars, archive, vi, content, existing, out_path, out_filename,
                 needs_review, err>>

\* Report raising as soon as a file is flagged
ReportEarly ==
  /\ Running /\ pc = "loop"
  /\ review_files # {}
  /\ Fail("SupersetCommandError")

\* lines 360-373
Report ==
  /\ Running /\ pc = "loop" /\ idx > Len(archive)
  /\ review_files # {}
  /\ Fail("SupersetCommandError")

\* lines 375-383
Finish ==
  /\ Running /\ pc = "loop" /\ idx > Len(archive)
  /\ review_files = {}
  /\ pc' = "done"
  /\ UNCHANGED <<translate_vars, archive, disk, idx, vi, content, existing, out_path,
                 out_filename, needs_review, written_assets, review_files,
                 dataset_warn, err>>

Next ==
  \/ SkipMetadata \/ Parse \/ Name \/ Classified \/ Unclassified
  \/ CheckTemplated \/ EndTemplated \/ CheckRequired \/ EndRequired
  \/ RemoveContent \/ OmitTemplated \/ KindProcess
  \/ Skip \/ Write \/ Report \/ Finish

Spec == Init /\ [][Next]_vars

(***************************************************************************)
(* Properties of the import pipeline.                                      *)
(***************************************************************************)
\* the entry being validated has been classified and its file loaded
InPass == pc \in {"templated", "required", "remove", "omit", "process", "return"}
            /\ out_path # "None"

\* the tree line 272 loaded for the entry being validated
Loaded ==
  IF <<out_path, out_filename>> \in DOMAIN disk
  THEN disk[<<out_path, out_filename>>] ELSE NoneV

Last(q) == q[Len(q)]

\* C1: while one entry is validated, stripped, reconciled and processed,
\* the existing tree stays as it was loaded from disk.
C1_ExistingReadOnly == InPass => existing = Loaded

C3_TemplatedOutcomes ==
  [][(Running /\ pc = "templated" /\ vi <= Len(get_templated_vars(out_path)))
       => LET var == get_templated_vars(out_path)[vi]
              cur == Get(content, var)
          IN /\ err' = "None"
             /\ IF \/ ~Truthy(cur)
                   \/ cur.t = "str" /\ StartsWith(cur.v, ExprOpen)
                   \/ cur.t = "str" /\ StartsWith(cur.v, StmtOpen)
                THEN content' = content /\ needs_review' = needs_review
                ELSE IF existing.t = "map" /\ Truthy(Get(existing, var))
                THEN /\ content' = SetKey(content, var, existing.v[var])
                     /\ needs_review' = needs_review
                ELSE needs_review']_vars

\* C4: a required path missing from the tree is backfilled from existing
\* with no flag, or, with no value there, raises the flag and no exception;
\* a required path that is present is left alone.
C4_RequiredOutcomes ==
  [][(Running /\ pc = "required" /\ vi <= Len(get_required_vars(out_path)))
       => LET var == get_required_vars(out_path)[vi]
          IN /\ err' = "None"
             /\ IF HasKey(content, var)
                THEN content' = content /\ needs_review' = needs_review
                ELSE IF existing.t = "map" /\ HasKey(existing, var)
                THEN /\ content' = SetKey(content, var, existing.v[var])
                     /\ needs_review' = needs_review
                ELSE needs_review']_vars

\* C5: an entry with none of the discriminator keys raises nothing,
\* whatever else it holds.
C5_UnclassifiableSkipped ==
  (/\ idx <= Len(archive)
   /\ ~IsMetadata(archive[idx].path)
   /\ Classify(archive[idx].tree) = "None") => err = "None"

\* C6: SupersetCommandError is raised only once every entry has been
\* processed; a flagged entry is written and the loop goes on; the names
\* reported are those of the flagged entries and no others.
C6_AggregateAfterBatch ==
  /\ [](err = "SupersetCommandError"
          => idx > Len(archive) /\ pc = "loop" /\ review_files # {})
  /\ []((pc = "done" /\ err = "None") => review_files = {})
  /\ [][/\ (Running /\ pc = "return" /\ needs_review)
             => /\ err' = "None" /\ pc' = "loop" /\ idx' = idx + 1
                /\ review_files' = review_files \cup {out_filename}
        /\ review_files' # review_files => (pc = "return" /\ needs_review)]_vars

\* the error is raised after a flagged entry and a later entry were written
C6_Witness ==
  /\ err = "SupersetCommandError"
  /\ Len(written_assets) = 2
  /\ written_assets[1][2] \in review_files

\* C7: a flagged entry is written to its class directory under its derived
\* file name and recorded; every reported name is the name of a written file.
C7_FlaggedWritten ==
  /\ review_files \subseteq {written_assets[i][2] : i \in 1..Len(written_assets)}
  /\ \A i \in 1..Len(written_assets) : written_assets[i] \in DOMAIN disk
  /\ (pc = "loop" /\ out_path # "None")
       => /\ written_assets # <<>>
          /\ Last(written_assets) = <<out_path, out_filename>>
          /\ disk[<<out_path, out_filename>>] = content
          /\ needs_review => out_filename \in review_files

C7_Witness ==
  /\ pc = "loop" /\ out_path = "dashboards" /\ needs_review
  /\ review_files = {out_filename}

\* C8: the steps of an entry run in the order parse, classify, templated
\* checks, required checks, strip, reconcile, process, write, and the next
\* entry starts only after that; an unclassified entry goes from classify
\* straight to being skipped and nothing is written for it.
StepOrder ==
  { <<"loop", "name">>, <<"name", "classify">>, <<"classify", "templated">>,
    <<"classify", "return">>, <<"templated", "required">>,
    <<"required", "remove">>, <<"remove", "omit">>, <<"omit", "process">>,
    <<"process", "return">>, <<"return", "loop">>, <<"loop", "done">> }

C8_StepOrder ==
  [][/\ pc' # pc => <<pc, pc'>> \in StepOrder
     /\ (pc = "classify" /\ pc' # pc)
          => (pc' = "return" <=> Classify(content) = "None")
     /\ idx' # idx => /\ idx' = idx + 1 /\ pc' = "loop"
                      /\ pc = "return" \/ IsMetadata(archive[idx].path)
     /\ written_assets' # written_assets
          => /\ pc = "return" /\ out_path # "None"
             /\ written_assets' = Append(written_assets, <<out_path, out_filename>>)
     /\ (pc = "return" /\ pc' = "loop")
          => (out_path = "None" <=> written_assets' = written_assets)
     /\ content' # content => pc \in {"loop", "name", "templated", "required",
                                       "remove", "omit", "process"}]_vars

\* one entry was skipped and the next went through every step
C8_Witness ==
  /\ pc = "loop" /\ idx = 3
  /\ Classify(archive[1].tree) = "None" /\ ~IsMetadata(archive[1].path)
  /\ Len(written_assets) = 1

(***************************************************************************)
(* omit_templated_vars on its own: line 313 run on every pair of a new     *)
(* tree and an existing tree of MergeNew and MergeOld, for a class with    *)
(* raw vars and one without.                                               *)
(***************************************************************************)
MaxItems == 2

MergeKeys == {"sql", "sqlExpression"}

NewInner == {Map(<<k>>, <<v>>) : k \in MergeKeys, v \in {S(Lit), NoneV}}
OldInner == {Map(<<k>>, <<v>>) : k \in MergeKeys, v \in {S(Lit), S(Tmpl)}}

NewNested ==
  {S(Lit), NoneV} \cup NewInner
    \cup {L(q) : q \in UNION {[1..n -> NewInner] : n \in 1..MaxItems}}

OldNested ==
  {S(Tmpl), NoneV} \cup OldInner
    \cup {L(q) : q \in UNION {[1..n -> OldInner] : n \in 0..(MaxItems - 1)}}

MergeNew ==
  {Map(<<"sql", "sqlExpression", "n", "new_only">>, <<S(Lit), b, n, S(Lit)>>) :
     b \in {S(Lit), NoneV}, n \in NewNested}

MergeOld ==
  {Map(<<"old_only", "n", "sqlExpression", "sql">>, <<S(Tmpl), n, b, a>>) :
     a \in {S(Lit), S(Tmpl), S(StmtTmpl)},
     b \in {S(Lit), S(Tmpl), S(RawWrap(Lit))},
     n \in OldNested}

InitMerge ==
  \E new \in MergeNew, old \in MergeOld, cls \in {"charts", "datasets"} :
    /\ archive = <<[path |-> <<"m", ".yaml">>, tree |-> new]>>
    /\ disk = <<>>
    /\ idx = 1
    /\ pc = "omit"
    /\ vi = 1
    /\ content = new
    /\ existing = old
    /\ out_path = cls
    /\ out_filename = <<"m", ".yaml">>
    /\ needs_review = FALSE
    /\ written_assets = <<>>
    /\ review_files = {}
    /\ dataset_warn = FALSE
    /\ err = "None"
    /\ TranslateIdle

SpecMerge == InitMerge /\ [][OmitTemplated]_vars

\* the call of line 313 has returned
Merged == pc = "process" /\ err = "None"

RECURSIVE Preserved(_, _, _, _)
Preserved(new, old, merged, raw) ==
  (new.t = "map" /\ old.t = "map") =>
    /\ merged.t = "map"
    /\ \A key \in DOMAIN new.v \cap DOMAIN old.v :
         LET nv == new.v[key]
             ov == old.v[key]
         IN /\ (ov.t = "str" /\ HasMarker(ov.v) /\ nv.t = "str" /\ key \notin raw)
                 => merged.v[key] = ov
            /\ (nv.t = "map" /\ ov.t = "map")
                 => Preserved(nv, ov, merged.v[key], raw)

\* C9: under every key shared by the new and the existing mapping, at any
\* depth of shared mappings, a new string whose existing value is a string
\* with a template marker becomes the existing string, unless the key is raw.
C9_TemplatePreserved ==
  Merged => Preserved(archive[idx].tree, existing, content,
                      get_raw_vars(out_path))

\* {sql: "a"} merged into {sql: "{{a}}"}, at the top and one mapping down
C9_Witness ==
  /\ Merged
  /\ archive[idx].tree.v["sql"] = S(Lit) /\ existing.v["sql"] = S(Tmpl)
  /\ content.v["sql"] = S(Tmpl)
  /\ archive[idx].tree.v["n"] = Map(<<"sql">>, <<S(Lit)>>)
  /\ content.v["n"] = Map(<<"sql">>, <<S(Tmpl)>>)

RECURSIVE RawWrapped(_, _, _, _)
RawWrapped(new, old, merged, raw) ==
  (new.t = "map" /\ old.t = "map") =>
    /\ merged.t = "map"
    /\ \A key \in DOMAIN new.v \cap DOMAIN old.v :
         LET nv == new.v[key]
             ov == old.v[key]
         IN /\ (ov.t = "str" /\ HasMarker(ov.v) /\ nv.t = "str" /\ key \in raw)
                 => merged.v[key] = S(RawOpen \o nv.v \o RawClose)
            /\ (nv.t = "map" /\ ov.t = "map")
                 => RawWrapped(nv, ov, merged.v[key], raw)

\* C10: under a shared raw key whose existing value is a string with a
\* template marker, the merged value is "{% raw %}" + new + "{% endraw %}".
C10_RawFieldWrapped ==
  Merged => RawWrapped(archive[idx].tree, existing, content,
                       get_raw_vars(out_path))

\* a chart's sqlExpression "a" merged into "{{a}}"
C10_Witness ==
  /\ Merged /\ out_path = "charts"
  /\ archive[idx].tree.v["sqlExpression"] = S(Lit)
  /\ existing.v["sqlExpression"] = S(Tmpl)
  /\ content.v["sqlExpression"] = S(RawWrap(Lit))
  /\ content.v["sqlExpression"] # existing.v["sqlExpression"]

(***************************************************************************)
(* Sequences under a shared key (lines 146-153).                           *)
(***************************************************************************)
\* every value under a raw key, at any depth of v, is a str
RECURSIVE RawAreStr(_, _)
RawAreStr(v, raw) ==
  CASE v.t = "map" ->
         \A key \in DOMAIN v.v :
           /\ key \in raw => v.v[key].t = "str"
           /\ RawAreStr(v.v[key], raw)
    [] v.t = "list" -> \A i \in 1..Len(v.v) : RawAreStr(v.v[i], raw)
    [] OTHER -> TRUE

\* C11: a sequence of mappings under a shared key is reconciled index by
\* index and the call never raises, whatever the existing value under that
\* key is; an entry at an index the existing value does not have is left as
\* it was.
C11_SequenceNeverRaises ==
  LET new == archive[idx].tree
      nv  == new.v["n"]
      ov  == existing.v["n"]
      raw == get_raw_vars(out_path)
  IN (nv.t = "list" /\ RawAreStr(new, raw))
       => /\ err = "None"
          /\ Merged =>
               /\ content.v["n"].t = "list"
               /\ Len(content.v["n"].v) = Len(nv.v)
               /\ \A i \in 1..Len(nv.v) :
                    (ov.t # "list" \/ i > Len(ov.v))
                      => content.v["n"].v[i] = nv.v[i]

(***************************************************************************)
(* extract_translations as a state machine: get_text_for_translations      *)
(* walks the asset files (pc = "walk"), extract_text runs translate_var    *)
(* for each translatable attribute of the asset (pc = "extract"), the      *)
(* supplementary dataset strings are added, and the 'en' mapping is built. *)
(***************************************************************************)
MaxAssets == 2

TX == S(<<"X">>)
TY == S(<<"Y">>)
TZ == S(<<"Z">>)

Meta(key, val) == Map(<<"meta">>, <<Map(<<key>>, <<val>>)>>)

\* values of a dashboard's `position`
Positions ==
  { Map(<<"a", "b">>, <<Meta("text", TX), Meta("text", TY)>>),
    Map(<<"a">>, <<EmptyMap>>),
    Map(<<"a", "b">>, <<Meta("code", TX), Meta("text", TY)>>),
    Map(<<"a", "b">>, <<Map(<<"meta">>, <<TZ>>), Meta("text", TY)>>),
    Map(<<"a", "b">>, <<TZ, Meta("text", TY)>>),
    Map(<<"a", "b">>, <<N(1), Meta("text", TY)>>),
    L(<<Meta("text", TX), Meta("text", TY)>>) }

Filters ==
  L(<<Map(<<"name", "description">>, <<TX, TZ>>), Map(<<"name">>, <<TY>>)>>)

\* values of a dashboard's `metadata`
Metadatas ==
  { Map(<<"native_filter_configuration">>, <<Filters>>),
    L(<<Map(<<"native_filter_configuration">>, <<Filters>>)>>) }

DashboardYaml(metadata, position) ==
  [file |-> <<"d", ".yaml">>,
   asset |-> Map(<<"dashboard_title", "metadata", "position">>,
                 <<TX, metadata, position>>)]

ChartYaml(description) ==
  [file |-> <<"c", ".yaml">>,
   asset |-> Map(<<"slice_name", "description", "params">>,
                 <<TY, description,
                   Map(<<"x_axis_label", "viz">>, <<TX, TZ>>)>>)]

DatasetYaml ==
  [file |-> <<"t", ".yaml">>,
   asset |-> Map(<<"table_name", "metrics", "columns">>,
                 <<TZ, L(<<Map(<<"verbose_name">>, <<TZ>>)>>),
                   L(<<Map(<<"verbose_name">>, <<TX>>),
                       Map(<<"column_name">>, <<TY>>)>>)>>)]

DatabaseYaml ==
  [file |-> <<"b", ".yaml">>,
   asset |-> Map(<<"database_name">>, <<TZ>>)]

\* a file of the directory that is not an asset
OtherFile == [file |-> <<"README", ".md">>, asset |-> NoneV]

AssetFiles ==
  {DashboardYaml(m, p) : m \in Metadatas, p \in Positions}
    \cup {ChartYaml(TZ), ChartYaml(NoneV), DatasetYaml, DatabaseYaml, OtherFile}

Walks == UNION {[1..n -> AssetFiles] : n \in 0..MaxAssets}

DatasetStrings ==
  { EmptyMap,
    Map(<<"ds1", "ds2">>, <<L(<<TX, S(<<"W">>)>>), L(<<S(<<"V">>)>>)>>) }

\* lines 92-102 and 208
InitExtract ==
  \E w \in Walks, ds \in DatasetStrings :
    /\ assets = w
    /\ dataset_strings = ds
    /\ asset_strings = <<>>
    /\ strings = <<>>
    /\ translations = NoneV
    /\ idx = 1
    /\ vi = 1
    /\ pc = "walk"
    /\ err = "None"
    /\ archive = <<>>
    /\ disk = <<>>
    /\ content = NoneV
    /\ existing = NoneV
    /\ out_path = "None"
    /\ out_filename = <<>>
    /\ needs_review = FALSE
    /\ written_assets = <<>>
    /\ review_files = {}
    /\ dataset_warn = FALSE

\* file.endswith(".yaml")
IsYaml(file) == file # <<>> /\ file[Len(file)] = ".yaml"

\* lines 129-138: the class of the first ASSET_FOLDER_MAPPING key in the asset
AssetType(a) ==
  IF \E i \in 1..Len(ASSET_FOLDER_MAPPING) : HasKey(a, ASSET_FOLDER_MAPPING[i].key)
  THEN ASSET_FOLDER_MAPPING[CHOOSE i \in 1..Len(ASSET_FOLDER_MAPPING) :
         /\ HasKey(a, ASSET_FOLDER_MAPPING[i].key)
         /\ \A j \in 1..(i - 1) : ~HasKey(a, ASSET_FOLDER_MAPPING[j].key)].cls
  ELSE "None"

\* the path extract_text is about to hand to translate_var
VarPath == translatable_attributes(AssetType(assets[idx].asset))[vi]

\* lines 106-107
SkipFile ==
  /\ Running /\ pc = "walk" /\ idx <= Len(assets)
  /\ ~IsYaml(assets[idx].file)
  /\ idx' = idx + 1
  /\ UNCHANGED <<import_vars, translate_vars, pc, vi, err>>

\* lines 109-114 up to the call of extract_text (line 131)
MarkText ==
  /\ Running /\ pc = "walk" /\ idx <= Len(assets)
  /\ IsYaml(assets[idx].file)
  /\ AssetType(assets[idx].asset) # "None"
  /\ pc' = "extract"
  /\ vi' = 1
  /\ asset_strings' = <<>>
  /\ UNCHANGED <<import_vars, assets, dataset_strings, strings, translations,
                 idx, err>>

\* lines 137-138 and 114: an asset of no translated type adds nothing
MarkNothing ==
  /\ Running /\ pc = "walk" /\ idx <= Len(assets)
  /\ IsYaml(assets[idx].file)
  /\ AssetType(assets[idx].asset) = "None"
  /\ idx' = idx + 1
  /\ UNCHANGED <<import_vars, translate_vars, pc, vi, err>>

\* lines 21-22, one translatable attribute
ExtractVar ==
  /\ Running /\ pc = "extract"
  /\ vi <= Len(translatable_attributes(AssetType(assets[idx].asset)))
  /\ LET r == translate_var(assets[idx].asset, VarPath)
     IN IF IsRaise(r) THEN Fail(r.e)
        ELSE /\ asset_strings' = asset_strings \o r.v
             /\ vi' = vi + 1
             /\ UNCHANGED <<import_vars, assets, dataset_strings, strings,
                            translations, idx, pc, err>>

\* lines 24, 135 and 114
ExtendStrings ==
  /\ Running /\ pc = "extract"
  /\ vi > Len(translatable_attributes(AssetType(assets[idx].asset)))
  /\ strings' = strings \o asset_strings
  /\ idx' = idx + 1
  /\ pc' = "walk"
  /\ UNCHANGED <<import_vars, assets, dataset_strings, asset_strings,
                 translations, vi, err>>

\* dataset_strings[key] of every key, in the mapping's order
RECURSIVE DatasetLists(_, _)
\* DatasetLists taking the list of the first key only
DatasetListsFirst(ds, ks) ==
  IF ks = <<>> THEN <<>> ELSE ds.v[Head(ks)].v

DatasetLists(ds, ks) ==
  IF ks = <<>> THEN <<>> ELSE ds.v[Head(ks)].v \o DatasetLists(ds, Tail(ks))

\* lines 116-121
ExtendDatasetStrings ==
  /\ Running /\ pc = "walk" /\ idx > Len(assets)
  /\ strings' = strings \o DatasetLists(dataset_strings, dataset_strings.ks)
  /\ pc' = "set"
  /\ UNCHANGED <<import_vars, assets, dataset_strings, asset_strings,
                 translations, idx, vi, err>>

\* hash(x) raises for a dict or a list
Hashable(x) == x.t \notin {"map", "list"}

\* lines 209-218: set() keeps one of each value, and each is written as its
\* own translation.  The mapping is a function from the extracted values;
\* the order of a set is not used (yaml.dump sorts the keys).
BuildTranslations ==
  /\ Running /\ pc = "set"
  /\ IF \A i \in 1..Len(strings) : Hashable(strings[i])
     THEN /\ translations' = [en |-> [s \in Range(strings) |-> s]]
          /\ pc' = "done"
          /\ UNCHANGED <<import_vars, assets, dataset_strings, asset_strings,
                         strings, idx, vi, err>>
     ELSE Fail("TypeError")

NextExtract ==
  \/ SkipFile \/ MarkText \/ MarkNothing \/ ExtractVar \/ ExtendStrings
  \/ ExtendDatasetStrings \/ BuildTranslations

SpecExtract == InitExtract /\ [][NextExtract]_vars

\* the asset extract_text is reading
Asset == assets[idx].asset

\* ExtractVar is about to call translate_var with VarPath
Extracting ==
  /\ Running /\ pc = "extract"
  /\ vi <= Len(translatable_attributes(AssetType(Asset)))

\* ExtractVar has returned from translate_var without an exception
Extracted == pc = "extract" /\ vi' = vi + 1

\* the lists rs[1], rs[2], ... one after the other
RECURSIVE Concat(_)
Concat(rs) ==
  IF rs = <<>> THEN <<>>
  ELSE (IF Head(rs).t = "list" THEN Head(rs).v ELSE <<>>) \o Concat(Tail(rs))

PositionExample == Map(<<"a", "b">>, <<Meta("text", TX), Meta("text", TY)>>)

\* C12: for a path whose second segment is "*", the strings extracted are
\* those of every value of the mapping under the first segment (of every
\* entry, when it is a sequence), each taken with the path that follows the
\* "*", in iteration order; {a: {meta: {text: X}}, b: {meta: {text: Y}}}
\* under position gives [X, Y] for position.*.meta.text.
C12_WildcardFanOut ==
  [][(Extracted /\ Len(VarPath) > 2 /\ VarPath[2] = "*") =>
       LET node == Get(Asset, VarPath[1])
           rest == SubSeq(VarPath, 3, Len(VarPath))
           each == CASE node.t = "map" ->
                          [i \in 1..Len(node.ks) |->
                             translate_var(node.v[node.ks[i]], rest)]
                     [] node.t = "list" ->
                          [i \in 1..Len(node.v) |-> translate_var(node.v[i], rest)]
                     [] OTHER -> <<>>
       IN /\ asset_strings' = asset_strings \o Concat(each)
          /\ (node = PositionExample /\ rest = <<"meta", "text">>)
               => asset_strings' = asset_strings \o <<TX, TY>>]_vars

\* position.*.meta.text has been extracted from the example
C12_Witness ==
  /\ pc = "extract" /\ vi = 6
  /\ Get(Asset, "position") = PositionExample
  /\ Len(asset_strings) >= 2
  /\ SubSeq(asset_strings, Len(asset_strings) - 1, Len(asset_strings)) = <<TX, TY>>

\* C13: position.*.meta.text applied to {position: {a: {}}} raises nothing
\* and yields one empty string, for the branch that has no leaf.
C13_MissingBranchEmptyString ==
  [][(/\ Extracting
      /\ VarPath = <<"position", "*", "meta", "text">>
      /\ Get(Asset, "position") = Map(<<"a">>, <<EmptyMap>>))
       => /\ err' = "None"
          /\ asset_strings' = asset_strings \o <<S(<<>>)>>]_vars

\* C13 as the code has it: position.*.meta.text applied to
\* {position: {a: {}}} raises nothing and yields no string at all, the
\* branch that has no leaf giving no match.
C13_MissingBranchNoMatch ==
  [][(/\ Extracting
      /\ VarPath = <<"position", "*", "meta", "text">>
      /\ Get(Asset, "position") = Map(<<"a">>, <<EmptyMap>>))
       => /\ err' = "None"
          /\ vi' = vi + 1
          /\ asset_strings' = asset_strings]_vars

\* position.*.meta.text has been extracted from {position: {a: {}}}
C13_Witness ==
  /\ Running /\ pc = "extract" /\ vi = 6
  /\ Get(Asset, "position") = Map(<<"a">>, <<EmptyMap>>)
  /\ Get(Asset, "metadata").t = "map"
  /\ asset_strings = <<TX, S(<<>>), TX, TY, TZ, S(<<>>)>>

\* a string or a number
Scalar(x) == x.t \in {"str", "num"}

\* a branch under position.* where meta or meta's key is asked of a scalar
Mismatch(branch) ==
  Scalar(branch) \/ (branch.t = "map" /\ Scalar(Get(branch, "meta")))

\* C14: when a branch of position holds a scalar where position.*.meta.text
\* (or .code) still has segments to follow, no exception is raised, that
\* branch gives no string, and the other branches give theirs.
C14_MismatchNeverRaises ==
  [][(/\ Extracting
      /\ Len(VarPath) = 4 /\ VarPath[2] = "*"
      /\ Get(Asset, VarPath[1]).t = "map"
      /\ \E key \in DOMAIN Get(Asset, VarPath[1]).v :
           Mismatch(Get(Asset, VarPath[1]).v[key]))
       => LET node == Get(Asset, VarPath[1])
              rest == SubSeq(VarPath, 3, 4)
              each == [i \in 1..Len(node.ks) |->
                         IF Mismatch(node.v[node.ks[i]]) THEN L(<<>>)
                         ELSE translate_var(node.v[node.ks[i]], rest)]
          IN /\ err' = "None"
             /\ asset_strings' = asset_strings \o Concat(each)]_vars

\* C15: when the value under the first segment is a sequence and two or
\* more segments follow, the first of them naming a key, every entry of the
\* sequence is walked with all of those segments and the results are
\* concatenated in the sequence's order.
C15_SequenceKeepsPath ==
  [][(/\ Extracted
      /\ Len(VarPath) > 2 /\ VarPath[2] # "*"
      /\ Get(Asset, VarPath[1]).t = "list")
       => LET node == Get(Asset, VarPath[1])
              each == [i \in 1..Len(node.v) |->
                         translate_var(node.v[i], Tail(VarPath))]
          IN asset_strings' = asset_strings \o Concat(each)]_vars

\* s.endswith(p)
EndsWith(s, p) == Len(s) >= Len(p) /\ SubSeq(s, Len(s) - Len(p) + 1, Len(s)) = p

\* C16: once an entry is classified, a dashboard's output file name is the
\* stem of the entry's name followed by ".yaml", and the output file name of
\* a chart, dataset or database ends with "_", the first six characters of
\* the entry's uuid and ".yaml".
C16_OutputNaming ==
  (Running /\ InPass) =>
    IF out_path = "dashboards"
    THEN out_filename = <<Head(archive[idx].path), ".yaml">>
    ELSE EndsWith(out_filename,
                  <<"_">> \o Prefix6(archive[idx].tree.v["uuid"].v) \o <<".yaml">>)

(***************************************************************************)
(* Lines 312-314 on their own: remove_content, omit_templated_vars and     *)
(* process run on a chart or a dataset whose params or extra has any of    *)
(* the shapes of StripNodes, against each tree of StripExisting.           *)
(***************************************************************************)
\* a value under the first segment of an omitted path, with `leaves` its keys
StripNodes(leaves) ==
  { Map(leaves \o <<"viz">>, [i \in 1..(Len(leaves) + 1) |-> S(Lit)]),
    Map(leaves, [i \in 1..Len(leaves) |-> NoneV]),
    Map(<<"viz">>, <<S(Lit)>>),
    EmptyMap,
    NoneV,
    S(Lit),
    N(1),
    L(<<Map(leaves, [i \in 1..Len(leaves) |-> S(Lit)])>>) }

StripChart(ks, vs) ==
  Map(<<"slice_name", "uuid", "query_context">> \o ks,
      <<S(Lit), S(Uuid1), NoneV>> \o vs)

StripDataset(ks, vs) ==
  Map(<<"table_name", "schema", "sql", "uuid">> \o ks,
      <<S(Tmpl), S(Tmpl), S(Tmpl), S(Uuid1)>> \o vs)

StripNew(cls) ==
  IF cls = "charts"
  THEN {StripChart(<<>>, <<>>)}
         \cup {StripChart(<<"params">>, <<p>>) :
                 p \in StripNodes(<<"dashboards", "datasource", "slice_id">>)}
  ELSE {StripDataset(<<>>, <<>>)}
         \cup {StripDataset(<<"extra">>, <<e>>) :
                 e \in StripNodes(<<"certification">>)}

\* what line 272 can have loaded: nothing, a tree that still holds the
\* omitted paths as templates, and one whose params or extra is a template
StripExisting(cls) ==
  IF cls = "charts"
  THEN { NoneV,
         StripChart(<<"params">>,
                    <<Map(<<"dashboards", "viz">>, <<S(Tmpl), S(Tmpl)>>)>>),
         StripChart(<<"params">>, <<S(Tmpl)>>) }
  ELSE { NoneV,
         StripDataset(<<"extra">>,
                      <<Map(<<"certification", "viz">>, <<S(Tmpl), S(Tmpl)>>)>>),
         StripDataset(<<"extra">>, <<S(Tmpl)>>) }

InitStrip ==
  \E cls \in {"charts", "datasets"} :
    \E new \in StripNew(cls), old \in StripExisting(cls) :
      /\ archive = <<[path |-> <<"s", ".yaml">>, tree |-> new]>>
      /\ disk = <<>>
      /\ idx = 1
      /\ pc = "remove"
      /\ vi = 1
      /\ content = new
      /\ existing = old
      /\ out_path = cls
      /\ out_filename = <<"s", ".yaml">>
      /\ needs_review = FALSE
      /\ written_assets = <<>>
      /\ review_files = {}
      /\ dataset_warn = FALSE
      /\ err = "None"
      /\ TranslateIdle

NextStrip == RemoveContent \/ OmitTemplated \/ KindProcess

SpecStrip == InitStrip /\ [][NextStrip]_vars

\* var_path leads to a value of the tree x
RECURSIVE Addresses(_, _)
Addresses(x, var_path) ==
  /\ x.t = "map"
  /\ HasKey(x, var_path[1])
  /\ Len(var_path) = 1 \/ Addresses(x.v[var_path[1]], Tail(var_path))

\* C17: whatever the value under params or extra is, remove_content raises
\* nothing, and from then on (through omit_templated_vars and process, to
\* the tree that is written) no omitted path of the kind leads to a value.
C17_OmittedStripped ==
  /\ pc = "remove" => err = "None"
  /\ (Running /\ pc \in {"omit", "process", "return"})
       => \A i \in 1..Len(get_omitted_vars(out_path)) :
            ~Addresses(content, get_omitted_vars(out_path)[i])

\* s starts with "{{" or "{%"
StartsTemplated(s) == StartsWith(s, ExprOpen) \/ StartsWith(s, StmtOpen)

\* C18: when the templated checks of an entry are over, and when the entry's
\* validation returns, with no review flag, every templated var of the kind
\* that holds a non-empty value holds a string that starts with "{{" or
\* "{%", values copied from the existing tree included.
C18_UnflaggedTemplated ==
  (Running /\ pc \in {"required", "return"} /\ out_path # "None" /\ ~needs_review)
    => \A i \in 1..Len(get_templated_vars(out_path)) :
         LET var == get_templated_vars(out_path)[i]
         IN (HasKey(content, var) /\ Truthy(content.v[var]))
              => /\ content.v[var].t = "str"
                 /\ StartsTemplated(content.v[var].v)

\* what extract_text returns for the file f, as a set
ExtractedFrom(f) ==
  IF IsYaml(f.file) /\ AssetType(f.asset) # "None"
  THEN UNION {Range(translate_var(f.asset,
                                  translatable_attributes(AssetType(f.asset))[j]).v) :
                j \in 1..Len(translatable_attributes(AssetType(f.asset)))}
  ELSE {}

\* every string of every asset and of every list of datasets_strings.yaml
AllExtracted ==
  UNION {ExtractedFrom(assets[i]) : i \in 1..Len(assets)}
    \cup UNION {Range(dataset_strings.v[key].v) : key \in DOMAIN dataset_strings.v}

\* C19: when extract_translations is done, the mapping has the one locale
\* 'en'; its keys are the strings extracted from all the assets together
\* with the supplementary dataset strings, each once however many assets
\* hold it, and each key maps to itself.
C19_EnglishMapping ==
  (Running /\ pc = "done") =>
    /\ DOMAIN translations = {"en"}
    /\ DOMAIN translations.en = AllExtracted
    /\ \A s \in DOMAIN translations.en : translations.en[s] = s
    /\ Cardinality(DOMAIN translations.en) <= Len(strings)

\* X was extracted from two assets and is a dataset string too
C19_Witness ==
  /\ Running /\ pc = "done"
  /\ Len(assets) = 2
  /\ TX \in ExtractedFrom(assets[1]) /\ TX \in ExtractedFrom(assets[2])
  /\ Len(SelectSeq(strings, LAMBDA s : s = TX)) >= 3
  /\ translations.en[TX] = TX
  /\ Cardinality(DOMAIN translations.en) < Len(strings)

\* C20: under a shared key whose existing value is a string with a template
\* marker, a new value that is not a string (a mapping, a sequence, a number
\* or null) is left as it is and the call raises nothing.
C20_NonStringKept ==
  LET new == archive[idx].tree
      kept == {key \in DOMAIN new.v \cap DOMAIN existing.v :
                 /\ new.v[key].t # "str"
                 /\ existing.v[key].t = "str" /\ HasMarker(existing.v[key].v)}
  IN (pc \in {"omit", "process"} /\ kept # {})
       => /\ err = "None"
          /\ Merged => \A key \in kept : content.v[key] = new.v[key]

\* every mapping of x is a mapping with the same keys in y, and every
\* sequence of x a sequence of the same length in y
RECURSIVE SameShape(_, _)
SameShape(x, y) ==
  CASE x.t = "map" ->
         /\ y.t = "map" /\ y.ks = x.ks
         /\ \A key \in DOMAIN x.v : SameShape(x.v[key], y.v[key])
    [] x.t = "list" ->
         /\ y.t = "list" /\ Len(y.v) = Len(x.v)
         /\ \A i \in 1..Len(x.v) : SameShape(x.v[i], y.v[i])
    [] OTHER -> TRUE

\* no string of x has a template marker
RECURSIVE NoMarker(_)
NoMarker(x) ==
  CASE x.t = "str" -> ~HasMarker(x.v)
    [] x.t = "map" -> \A key \in DOMAIN x.v : NoMarker(x.v[key])
    [] x.t = "list" -> \A i \in 1..Len(x.v) : NoMarker(x.v[i])
    [] OTHER -> TRUE

\* what the merge of new with old leaves alone, in every pair of mappings
\* it reconciles
RECURSIVE FrameKept(_, _, _)
FrameKept(new, old, merged) ==
  (new.t = "map" /\ old.t = "map" /\ merged.t = "map") =>
    /\ \A key \in DOMAIN old.v \ DOMAIN new.v : key \notin DOMAIN merged.v
    /\ \A key \in DOMAIN new.v \cap DOMAIN merged.v :
         IF key \notin DOMAIN old.v THEN merged.v[key] = new.v[key]
         ELSE /\ NoMarker(old.v[key]) => merged.v[key] = new.v[key]
              /\ FrameKept(new.v[key], old.v[key], merged.v[key])

\* C21: the merged tree has the mappings of the new tree with the same keys
\* and its sequences with the same lengths; a key of the new tree alone
\* keeps its value, a key of the existing tree alone is not copied, and a
\* value under a shared key whose existing value has no template marker is
\* the new value.
C21_ReconcileFrame ==
  Merged =>
    /\ SameShape(archive[idx].tree, content)
    /\ FrameKept(archive[idx].tree, existing, content)

\* how many times p occurs in s
Occurrences(s, p) ==
  Cardinality({i \in 1..(Len(s) - Len(p) + 1) : SubSeq(s, i, i + Len(p) - 1) = p})

\* no string under a raw key of x, at any depth, holds "{% raw %}" twice
RECURSIVE RawOnce(_, _)
RawOnce(x, raw) ==
  CASE x.t = "map" ->
         \A key \in DOMAIN x.v :
           /\ (key \in raw /\ x.v[key].t = "str")
                => Occurrences(x.v[key].v, RawOpen) <= 1
           /\ RawOnce(x.v[key], raw)
    [] x.t = "list" -> \A i \in 1..Len(x.v) : RawOnce(x.v[i], raw)
    [] OTHER -> TRUE

\* C22: in every chart written, a raw field is inside at most one
\* "{% raw %}" ... "{% endraw %}" pair, whatever was imported before it;
\* and importing the same entry again, over the tree its first import
\* wrote, writes that tree again.
C22_RawWrappedOnce ==
  /\ [](\A f \in DOMAIN disk :
          f[1] = "charts" => RawOnce(disk[f], get_raw_vars("charts")))
  /\ [][(/\ Running /\ pc = "return" /\ out_path = "charts"
         /\ idx > 1 /\ archive[idx] = archive[idx - 1]
         /\ written_assets # <<>>
         /\ Last(written_assets) = <<out_path, out_filename>>)
          => disk' = disk]_vars

====
